---- MODULE Spec2Model ----
(***************************************************************************)
(* rshmem: an intrusive first-fit block allocator inside a shared arena,   *)
(* serialised by a spin lock kept in the arena's first byte.               *)
(*                                                                         *)
(* The arena is modelled byte by byte.  Pointers and sizes are machine     *)
(* words of WordBytes bytes stored little-endian, and all word arithmetic  *)
(* is modulo Modulus = 256^WordBytes, as in a build without overflow       *)
(* checks (a build with overflow checks panics where this model wraps).    *)
(***************************************************************************)
EXTENDS Integers, Sequences, FiniteSets, TLC

\* ---------------------------------------------------------------- bounds
\* Bytes in a machine word (usize / *mut u8) of the modelled target.
WordBytes == 2
\* Bytes in the shared arena (the `size` given to MemoryMutex::new).
ArenaSize == 28
\* Address at which the arena is mapped.
MapBase == 256

\* ------------------------------------------------------ program constants
\* MemoryMutex::SIZE = size_of::<AtomicBool>()
MutexSize == 1

Modulus == 256 ^ WordBytes
\* BlockHeader::SIZE: three word-sized fields, repr(C)
HeaderSize == 3 * WordBytes
Null == 0

\* MemoryGuard::buffer() and MemoryGuard::size()
GuardBuffer == MapBase + MutexSize
GuardSize == ArenaSize - MutexSize

ArenaAddrs == MapBase .. (MapBase + ArenaSize - 1)
\* Memory is the sequence of the arena's bytes: byte i is at this address
AddrOf(i) == MapBase + i - 1
\* The byte of memory m at address a
ByteAt(m, a) == m[a - MapBase + 1]

\* Field offsets of the repr(C) BlockHeader
OffSize == 0
OffNext == WordBytes
OffParent == 2 * WordBytes

\* ---------------------------------------------------------- raw memory
\* Whether the n bytes at address a lie inside the guarded region.
InRegion(a, n) == GuardBuffer <= a /\ a + n <= GuardBuffer + GuardSize

RECURSIVE ReadBytes(_, _, _)
ReadBytes(m, a, n) ==
    IF n = 0 THEN 0 ELSE ByteAt(m, a) + 256 * ReadBytes(m, a + 1, n - 1)

ReadWord(m, a) == ReadBytes(m, a, WordBytes)

WriteWord(m, a, v) ==
    [i \in DOMAIN m |->
        IF AddrOf(i) >= a /\ AddrOf(i) < a + WordBytes
        THEN (v \div (256 ^ (AddrOf(i) - a))) % 256
        ELSE m[i]]

\* ptr::write_bytes(0, n)
WriteZero(m, a, n) ==
    [i \in DOMAIN m |-> IF AddrOf(i) >= a /\ AddrOf(i) < a + n THEN 0 ELSE m[i]]

Add(a, b) == (a + b) % Modulus
Sub(a, b) == (a - b + Modulus) % Modulus

BlockSizeField(m, b) == ReadWord(m, b + OffSize)
BlockNext(m, b) == ReadWord(m, b + OffNext)
BlockParent(m, b) == ReadWord(m, b + OffParent)

\* ------------------------------------------------------------- allocate
\* One invocation of `allocate` (allocator.rs:43-74) on memory m, up to its
\* recursive call.  st is "some" (ptr returned), "none", "recurse" (the call
\* on line 73, with its arguments in buffer / buffer_len) or "fault" (the
\* invocation reads or writes a header at ptr, outside the guarded region:
\* undefined behaviour, after which the call is not followed further).
AllocOut(st, m, ptr, buffer, buffer_len) ==
    [st |-> st, mem |-> m, ptr |-> ptr, buffer |-> buffer, buffer_len |-> buffer_len]

AllocCall(m, buffer, buffer_len, size, parent) ==
    IF ~InRegion(buffer, HeaderSize)
    THEN AllocOut("fault", m, buffer, buffer, buffer_len)
    ELSE
    LET block_size == Add(HeaderSize, BlockSizeField(m, buffer))
        next == BlockNext(m, buffer)
        free_space == IF next = Null
                      THEN Sub(buffer_len, block_size)
                      ELSE Sub(Sub(next, buffer), block_size)
    IN  IF free_space >= Add(HeaderSize, size)
        THEN LET new_buffer == Add(buffer, block_size)
                 new_block_data == Add(new_buffer, HeaderSize)
             IN  IF ~InRegion(new_buffer, HeaderSize)
                 THEN AllocOut("fault", m, new_buffer, buffer, buffer_len)
                 ELSE
                 LET m1 == WriteWord(m, new_buffer + OffSize, size)
                     m2 == WriteWord(m1, new_buffer + OffNext, BlockNext(m1, buffer))
                     m3 == WriteWord(m2, new_buffer + OffParent, parent)
                     m4 == WriteWord(m3, buffer + OffNext, new_buffer)
                 IN  AllocOut("some", m4, new_block_data, buffer, buffer_len)
        ELSE IF next = Null
        THEN AllocOut("none", m, Null, buffer, buffer_len)
        ELSE AllocOut("recurse", m, Null, next, Sub(buffer_len, Sub(next, buffer)))

\* fn allocate: the invocations chained through the recursive call.  The
\* scan writes nothing before it returns, so an invocation on a header the
\* scan has already visited repeats for ever: st is then "diverge".  (r, the
\* outcome of this invocation, is bound once by the set constructor.)
RECURSIVE AllocRec(_, _, _, _, _, _)
AllocRec(m, buffer, buffer_len, size, parent, seen) ==
    CHOOSE out \in
        {IF r.st # "recurse" THEN r
         ELSE IF r.buffer \in seen
         THEN AllocOut("diverge", m, Null, buffer, buffer_len)
         ELSE AllocRec(m, r.buffer, r.buffer_len, size, parent, seen \cup {r.buffer})
            : r \in {AllocCall(m, buffer, buffer_len, size, parent)}} : TRUE

allocate(m, buffer, buffer_len, size, parent) ==
    AllocRec(m, buffer, buffer_len, size, parent, {buffer})

\* Allocator::allocate and Allocator::allocate_more, on the guard's region
Allocator_allocate(m, size) == allocate(m, GuardBuffer, GuardSize, size, Null)
Allocator_allocate_more(m, size, parent) ==
    allocate(m, GuardBuffer, GuardSize, size, parent)

\* ----------------------------------------------------------- deallocate
\* One invocation of `deallocate` (allocator.rs:76-93) up to its recursive
\* call.  st is "done" (returns deallocated), "recurse" or "fault".
DeallocOut(st, m, prev, current, deallocated) ==
    [st |-> st, mem |-> m, prev |-> prev, current |-> current,
     deallocated |-> deallocated]

DeallocCall(m, prev, current, data, deallocated) ==
    IF current = Null
    THEN DeallocOut("done", m, prev, current, deallocated)
    ELSE IF ~InRegion(current, HeaderSize)
    THEN DeallocOut("fault", m, prev, current, deallocated)
    ELSE
    LET block_data == Add(current, HeaderSize)
    IN  IF BlockSizeField(m, current) > 0
           /\ (block_data = data \/ BlockParent(m, current) = data)
        THEN LET next == BlockNext(m, current)
                 m1 == WriteWord(m, prev + OffNext, BlockNext(m, current))
                 count == Add(HeaderSize, BlockSizeField(m1, current))
             IN  IF ~InRegion(current, count)
                 THEN DeallocOut("fault", m, prev, current, deallocated)
                 ELSE DeallocOut("recurse", WriteZero(m1, current, count),
                                 prev, next, Add(deallocated, 1))
        ELSE DeallocOut("recurse", m, current, BlockNext(m, current), deallocated)

\* fn deallocate: the invocations chained through the recursive calls.  An
\* invocation with the memory and the arguments prev and current of an
\* earlier one repeats for ever: st is then "diverge".
RECURSIVE DeallocRec(_, _, _, _, _, _)
DeallocRec(m, prev, current, data, deallocated, seen) ==
    CHOOSE out \in
        {IF r.st # "recurse" THEN r
         ELSE IF <<r.mem, r.prev, r.current>> \in seen
         THEN DeallocOut("diverge", m, prev, current, deallocated)
         ELSE DeallocRec(r.mem, r.prev, r.current, data, r.deallocated,
                         seen \cup {<<r.mem, r.prev, r.current>>})
            : r \in {DeallocCall(m, prev, current, data, deallocated)}} : TRUE

deallocate(m, prev, current, data, deallocated) ==
    DeallocRec(m, prev, current, data, deallocated, {<<m, prev, current>>})

\* Allocator::deallocate: the walk starts at the bytes right after the head
\* sentinel, not at the head sentinel's `next`.
Allocator_deallocate(m, buffer) ==
    LET prev == GuardBuffer
        current == Add(prev, HeaderSize)
    IN  deallocate(m, prev, current, buffer, 0)

\* ------------------------------------------------------------ the lock
\* The lock word: the AtomicBool in the arena's first byte (mutex.rs:50)
LockWord(m) == ByteAt(m, MapBase) # 0

\* A lock that stores true without comparing: it always succeeds.
CompareExchange_Blind(m) == [ok |-> TRUE, mem |-> [m EXCEPT ![1] = 1]]

\* AtomicBool::compare_exchange(false, true) on the lock word: whether it
\* succeeded, and the memory after it.
CompareExchange(m) ==
    IF LockWord(m)
    THEN [ok |-> FALSE, mem |-> m]
    ELSE [ok |-> TRUE, mem |-> [m EXCEPT ![1] = 1]]

\* A guard whose drop leaves the lock word as it is.
GuardDrop_Forgotten(m) == m

\* MemoryGuard::drop: locker.store(false)
GuardDrop(m) == [m EXCEPT ![1] = 0]

\* ------------------------------------------------------------ the state
VARIABLES
    mem,    \* the arena's bytes, lock word first
    last,   \* the most recent Allocator call of the sequential caller
    wraps,  \* how many requests so far had header size + size overflow
    proc,   \* per caller of the facade: where it is and its locals
    lin     \* the arena as left by running the facade calls one at a time,
            \* each at the moment it acquired the lock

vars == <<mem, last, wraps, proc, lin>>

\* The block headers reachable from the head sentinel through `next`, in
\* order, head sentinel first (cut where the chain leaves the region or
\* comes back to a header already visited).
RECURSIVE ChainFrom(_, _, _)
ChainFrom(m, b, seen) ==
    IF b = Null \/ ~InRegion(b, HeaderSize) \/ b \in seen
    THEN <<>>
    ELSE <<b>> \o ChainFrom(m, BlockNext(m, b), seen \cup {b})

Chain(m) == ChainFrom(m, GuardBuffer, {})
Range(s) == {s[i] : i \in DOMAIN s}
\* Headers of the blocks handed to callers, and their payload addresses
Blocks(m) == Range(Chain(m)) \ {GuardBuffer}
Payload(b) == Add(b, HeaderSize)
Payloads(m) == {Payload(b) : b \in Blocks(m)}

\* ------------------------------------------------------- caller inputs
\* The size that makes header size + size wrap to zero
HugeSize == Modulus - HeaderSize
Sizes == {0, 1, ArenaSize, HugeSize}
\* At most this many requests whose header size + size overflows
MaxWraps == 1
Wraps(size) == IF HeaderSize + size >= Modulus THEN 1 ELSE 0
\* An address no allocation returns: the lock word's
Foreign == MapBase
\* Where the payload of a block placed right after the head sentinel lies
FirstPayload == GuardBuffer + 2 * HeaderSize
\* The addresses a caller hands to deallocate: null, a foreign address, the
\* payload addresses of the live blocks, the addresses live blocks are
\* grouped under, the address returned last and the first payload address
\* (live or already freed).
Addresses(m, l) ==
    {Null, Foreign, FirstPayload, l.ptr} \cup Payloads(m)
        \cup {BlockParent(m, b) : b \in Blocks(m)}

NoCall == [op |-> "none", st |-> "done", ptr |-> Null, count |-> 0]
Running == last.st \notin {"fault", "diverge"}

Procs == {1, 2}
Idle == [pc |-> "idle", op |-> "none", size |-> 0, arg |-> Null,
         buffer |-> Null, buffer_len |-> 0, prev |-> Null, current |-> Null,
         deallocated |-> 0, st |-> "done", ptr |-> Null]

InitArena == [i \in 1 .. ArenaSize |-> 0]

\* ---------------------------------------------- the sequential allocator
\* As in the tests' create_allocator: a zeroed arena whose lock is taken
\* once, and one Allocator over the guard.
Init ==
    /\ mem = CompareExchange(InitArena).mem
    /\ last = NoCall
    /\ wraps = 0
    /\ proc = <<>>
    /\ lin = <<>>

Allocate(size) ==
    /\ Running
    /\ wraps + Wraps(size) <= MaxWraps
    /\ LET r == Allocator_allocate(mem, size)
       IN  /\ mem' = r.mem
           /\ last' = [op |-> "allocate", st |-> r.st, ptr |-> r.ptr, count |-> 0]
    /\ wraps' = wraps + Wraps(size)
    /\ UNCHANGED <<proc, lin>>

AllocateMore(size, parent) ==
    /\ Running
    /\ wraps + Wraps(size) <= MaxWraps
    /\ LET r == Allocator_allocate_more(mem, size, parent)
       IN  /\ mem' = r.mem
           /\ last' = [op |-> "allocate_more", st |-> r.st, ptr |-> r.ptr,
                       count |-> 0]
    /\ wraps' = wraps + Wraps(size)
    /\ UNCHANGED <<proc, lin>>

Deallocate(buffer) ==
    /\ Running
    /\ LET r == Allocator_deallocate(mem, buffer)
       IN  /\ mem' = r.mem
           /\ last' = [op |-> "deallocate", st |-> r.st, ptr |-> Null,
                       count |-> r.deallocated]
    /\ UNCHANGED <<wraps, proc, lin>>

Next ==
    \/ \E size \in Sizes : Allocate(size)
    \/ \E size \in Sizes, parent \in Payloads(mem) : AllocateMore(size, parent)
    \/ \E buffer \in Addresses(mem, last) : Deallocate(buffer)

Spec == Init /\ [][Next]_vars

\* ------------------------------------------------------------ the facade
\* Memory::allocate / allocate_more / deallocate called by the threads and
\* processes Procs on one arena whose lock word starts clear.  A call takes
\* the lock (MemoryMutex::lock), runs the Allocator function one invocation
\* of the recursion per step, and drops the guard as it returns.
ConcSizes == {1, HugeSize}

InitConc ==
    /\ mem = InitArena
    /\ last = NoCall
    /\ wraps = 0
    /\ proc = [p \in Procs |-> Idle]
    /\ lin = [mem |-> InitArena, st |-> "done", ptr |-> Null, deallocated |-> 0]

\* The caller enters Memory::allocate / allocate_more / deallocate and
\* reaches MemoryMutex::lock.  The arguments of the call are not used before
\* the lock is taken, and are drawn then.
Call(p) ==
    /\ proc[p].pc = "idle"
    /\ proc' = [proc EXCEPT ![p] = [Idle EXCEPT !.pc = "lock"]]
    /\ UNCHANGED <<mem, last, wraps, lin>>

\* What the whole call does to the arena m when nothing else runs
Whole(m, op, size, arg) ==
    IF op = "deallocate"
    THEN LET r == Allocator_deallocate(m, arg)
         IN  [mem |-> r.mem, st |-> r.st, ptr |-> Null,
              deallocated |-> r.deallocated]
    ELSE LET r == Allocator_allocate_more(m, size, arg)
         IN  [mem |-> r.mem, st |-> r.st, ptr |-> r.ptr, deallocated |-> 0]

\* One turn of the loop of MemoryMutex::lock, in the call op(size, arg):
\* the compare_exchange either takes the lock, and the Allocator function
\* is entered with its first arguments, or fails, and the caller spins.
Lock(p, op, size, arg) ==
    /\ proc[p].pc = "lock"
    /\ LET cas == CompareExchange(mem)
       IN  IF cas.ok
           THEN /\ wraps + Wraps(size) <= MaxWraps
                /\ wraps' = wraps + Wraps(size)
                /\ mem' = cas.mem
                /\ proc' = [proc EXCEPT ![p] =
                       [@ EXCEPT !.pc = "run",
                                 !.op = op, !.size = size, !.arg = arg,
                                 !.buffer = GuardBuffer,
                                 !.buffer_len = GuardSize,
                                 !.prev = GuardBuffer,
                                 !.current = Add(GuardBuffer, HeaderSize),
                                 !.deallocated = 0]]
                /\ lin' = LET w == Whole(lin.mem, op, size, arg)
                          IN  IF w.st \in {"fault", "diverge"}
                              THEN [w EXCEPT !.mem = lin.mem] ELSE w
           ELSE UNCHANGED <<mem, proc, lin, wraps>>
    /\ UNCHANGED last

\* One invocation of allocate or deallocate by the holder of the guard
Step(p) ==
    /\ proc[p].pc = "run"
    /\ LET f == proc[p]
       IN  IF f.op = "deallocate"
           THEN LET r == DeallocCall(mem, f.prev, f.current, f.arg, f.deallocated)
                    \* the next invocation is this one again: it never ends
                    again == /\ r.st = "recurse" /\ r.mem = mem
                             /\ r.prev = f.prev /\ r.current = f.current
                IN  /\ mem' = r.mem
                    /\ proc' = [proc EXCEPT ![p] =
                           [@ EXCEPT !.pc = CASE r.st = "done" -> "drop"
                                             [] r.st = "fault" \/ again -> "stuck"
                                             [] OTHER -> "run",
                                     !.st = IF again THEN "diverge" ELSE r.st,
                                     !.prev = r.prev,
                                     !.current = r.current,
                                     !.deallocated = r.deallocated]]
           ELSE LET r == AllocCall(mem, f.buffer, f.buffer_len, f.size, f.arg)
                IN  /\ mem' = r.mem
                    /\ proc' = [proc EXCEPT ![p] =
                           [@ EXCEPT !.pc = CASE r.st \in {"some", "none"} -> "drop"
                                             [] r.st = "fault" -> "stuck"
                                             [] OTHER -> "run",
                                     !.st = r.st,
                                     !.ptr = r.ptr,
                                     !.buffer = r.buffer,
                                     !.buffer_len = r.buffer_len]]
    /\ UNCHANGED <<last, wraps, lin>>

\* The call returns: the Allocator and with it the MemoryGuard are dropped
Drop(p) ==
    /\ proc[p].pc = "drop"
    /\ mem' = GuardDrop(mem)
    /\ proc' = [proc EXCEPT ![p] = Idle]
    /\ UNCHANGED <<last, wraps, lin>>

NextConc ==
    \E p \in Procs :
        \/ Call(p)
        \/ \E size \in ConcSizes : Lock(p, "allocate", size, Null)
        \/ \E size \in ConcSizes, parent \in Payloads(mem) :
                Lock(p, "allocate_more", size, parent)
        \/ \E buffer \in {Null} \cup Payloads(mem) : Lock(p, "deallocate", 0, buffer)
        \/ Step(p)
        \/ Drop(p)

SpecConc == InitConc /\ [][NextConc]_vars

\* ===================================================== claims: allocator
\* Whether the walk of deallocate returned, and freed something / nothing
Freed(r) == r.st = "done" /\ r.deallocated > 0
Missed(r) == r.st = "done" /\ r.deallocated = 0

\* C1: in every reachable arena state, for every address x returned by
\* allocate / allocate_more whose block is still in the list, deallocate(x)
\* returns true and a deallocate(x) issued right after it returns false.
C1_DeallocateTrueOnce ==
    Running =>
        \A x \in Payloads(mem) :
            LET first == Allocator_deallocate(mem, x)
                second == Allocator_deallocate(first.mem, x)
            IN  Freed(first) /\ Missed(second)

\* The free bytes after each block of the list: up to its successor, or up
\* to the end of the guarded region after the tail (as integers, no wrap).
BlockEnd(m, b) == b + HeaderSize + BlockSizeField(m, b)
Gaps(m) ==
    LET c == Chain(m)
    IN  {(IF i < Len(c) THEN c[i + 1] ELSE GuardBuffer + GuardSize)
            - BlockEnd(m, c[i]) : i \in DOMAIN c}
Fits(m, size) == \E g \in Gaps(m) : g >= HeaderSize + size

\* The arena before any call
FreshArena == CompareExchange(InitArena).mem

\* C2: in every reachable arena state and for every requested size,
\* allocate(size) / allocate_more(size, p) returns an address iff some gap of
\* the block list is at least header size + size, and None otherwise; in a
\* fresh arena allocate(4) succeeds and a following allocate of more bytes
\* than the arena holds returns None.
C2_AllocateIffGap ==
    /\ Running =>
        \A size \in Sizes, parent \in {Null} \cup Payloads(mem) :
            LET r == Allocator_allocate_more(mem, size, parent)
            IN  IF Fits(mem, size) THEN r.st = "some" ELSE r.st = "none"
    /\ LET r4 == Allocator_allocate(FreshArena, 4)
       IN  /\ r4.st = "some"
           /\ Allocator_allocate(r4.mem, ArenaSize).st = "none"

\* The live pairs (parent payload address, child payload address): the
\* child block is grouped under the address of a block of the list.
Groups(m) ==
    {<<BlockParent(m, c), Payload(c)>> : c \in
        {c \in Blocks(m) : BlockParent(m, c) \in Payloads(m) \ {Payload(c)}}}

\* C3: if child was returned by allocate_more(s, parent) and both are live,
\* deallocate(parent) returns true and removes both, so that deallocate(child)
\* and deallocate(parent) issued afterwards both return false.
C3_ParentFreesChild ==
    Running =>
        \A g \in Groups(mem) :
            LET r == Allocator_deallocate(mem, g[1])
            IN  /\ Freed(r)
                /\ g[1] \notin Payloads(r.mem) /\ g[2] \notin Payloads(r.mem)
                /\ Missed(Allocator_deallocate(r.mem, g[2]))
                /\ Missed(Allocator_deallocate(r.mem, g[1]))

\* C4: if child was returned by allocate_more(s, parent) and both are live,
\* deallocate(child) returns true and leaves parent live: deallocate(parent)
\* issued afterwards still returns true, wherever the two blocks lie.
C4_ChildKeepsParent ==
    Running =>
        \A g \in Groups(mem) :
            LET r == Allocator_deallocate(mem, g[2])
            IN  /\ Freed(r)
                /\ g[1] \in Payloads(r.mem)
                /\ Freed(Allocator_deallocate(r.mem, g[1]))

\* Allocator::allocate of each size of a sequence in turn, from memory m;
\* ok is whether every one returned an address.
RECURSIVE AllocateAll(_, _)
AllocateAll(sizes, m) ==
    IF sizes = <<>> THEN [ok |-> TRUE, mem |-> m]
    ELSE LET r == Allocator_allocate(m, Head(sizes))
         IN  IF r.st = "some" THEN AllocateAll(Tail(sizes), r.mem)
             ELSE [ok |-> FALSE, mem |-> m]

\* Allocator::deallocate of each address of a sequence in turn; ok is
\* whether every call returned.
RECURSIVE DeallocateAll(_, _)
DeallocateAll(order, m) ==
    IF order = <<>> THEN [ok |-> TRUE, mem |-> m]
    ELSE LET r == Allocator_deallocate(m, Head(order))
         IN  IF r.st = "done" THEN DeallocateAll(Tail(order), r.mem)
             ELSE [ok |-> FALSE, mem |-> m]

\* The sizes of the blocks of the list, in list order
SizesOf(m) ==
    LET c == Chain(m)
    IN  [i \in 1 .. (Len(c) - 1) |-> BlockSizeField(m, c[i + 1])]
\* The arena is what allocate calls alone, of these sizes, leave of an
\* empty arena
OnlyAllocated(m) ==
    LET r == AllocateAll(SizesOf(m), FreshArena)
    IN  r.ok /\ r.mem = m

\* The orders in which the addresses of a set can be listed, each once
RECURSIVE Orders(_)
Orders(S) ==
    IF S = {} THEN {<<>>}
    ELSE UNION {{<<x>> \o o : o \in Orders(S \ {x})} : x \in S}

\* The largest size for which allocate returns an address (-1: none)
LargestAllocation(m) ==
    LET ok == {s \in 0 .. ArenaSize : Allocator_allocate(m, s).st = "some"}
    IN  IF ok = {} THEN -1 ELSE CHOOSE s \in ok : \A t \in ok : t <= s

\* C5: from an empty arena, allocating k blocks and then calling deallocate
\* once on each returned address, in any order, leaves only the head sentinel
\* in the list, and the largest size allocate then grants is the largest it
\* grants on the empty arena.
C5_RoundTrip ==
    Running /\ OnlyAllocated(mem) =>
        \A order \in Orders(Payloads(mem)) :
            LET r == DeallocateAll(order, mem)
            IN  /\ r.ok
                /\ BlockNext(r.mem, GuardBuffer) = Null
                /\ LargestAllocation(r.mem) = LargestAllocation(FreshArena)

\* C6: deallocating an address that is not the payload address of any live
\* block (freed already, never returned, or null) returns false and leaves the
\* arena as it was.
C6_MissIsNoOp ==
    Running =>
        \A x \in Addresses(mem, last) \ Payloads(mem) :
            LET r == Allocator_deallocate(mem, x)
            IN  Missed(r) /\ r.mem = mem

\* The blocks of the list start at strictly increasing addresses, each lies
\* inside the guarded region, and none runs into its successor.
Layout(m) ==
    LET c == Chain(m)
    IN  /\ BlockNext(m, c[Len(c)]) = Null
        /\ \A i \in DOMAIN c :
            /\ GuardBuffer <= c[i]
            /\ BlockEnd(m, c[i]) <= GuardBuffer + GuardSize
            /\ i < Len(c) => c[i] < c[i + 1] /\ BlockEnd(m, c[i]) <= c[i + 1]

\* A step in which allocate / allocate_more returned an address adds exactly
\* one block to the list.
AllocGrows ==
    last'.op \in {"allocate", "allocate_more"} /\ last'.st = "some" =>
        Cardinality(Blocks(mem')) = Cardinality(Blocks(mem)) + 1

\* C10: after any sequence of calls the blocks reachable from the head
\* sentinel have strictly increasing start addresses, lie inside the guarded
\* region and do not overlap; each successful allocate / allocate_more adds
\* exactly one block to the list.
C10_SortedDisjointGrowing == [](Layout(mem)) /\ [][AllocGrows]_vars

\* ======================================================== claims: facade
\* The caller is between its successful compare_exchange and its store of
\* false (a call that ran into undefined behaviour or never ends stays there)
Holding(p) == proc[p].pc \in {"run", "drop", "stuck"}
Holders == {p \in DOMAIN proc : Holding(p)}

Linearized ==
    /\ ~LockWord(mem) => mem = lin.mem
    /\ \A p \in DOMAIN proc :
        proc[p].pc = "drop" =>
            /\ GuardDrop(mem) = lin.mem
            /\ proc[p].st = lin.st
            /\ proc[p].ptr = lin.ptr
            /\ proc[p].op = "deallocate" => proc[p].deallocated = lin.deallocated

\* C8: under concurrent calls of the facade every state of the block list is
\* one that the completed calls, run one at a time, produce: no holder finds
\* a partially updated list, the headers reachable from the head sentinel are
\* consistent, and no two live blocks overlap.
C8_SerialStates == Linearized /\ Layout(mem)

\* C9: every facade call releases the lock before it returns, whatever it
\* returns: the lock word is true only while a caller holds the guard inside
\* a call, and false whenever no call is in progress.
C9_ReleasedOnReturn == LockWord(mem) <=> Holders # {}

\* Calls have changed the arena and returned; no call is in progress.
C9_Returned ==
    /\ \A p \in DOMAIN proc : proc[p].pc = "idle"
    /\ DOMAIN proc # {}
    /\ Blocks(mem) # {}
    /\ ~LockWord(mem)

\* ============================================ claims: allocator, continued
\* The blocks of the list that deallocate(data) is to remove: the block whose
\* payload address is data and the blocks whose parent field is data.
Targets(m, data) ==
    {b \in Blocks(m) : Payload(b) = data \/ BlockParent(m, b) = data}

\* Every byte of the arena from address a up to (not including) address e
\* is zero in memory m.
ZeroedFrom(m, a, e) ==
    \A i \in DOMAIN m : AddrOf(i) >= a /\ AddrOf(i) < e => m[i] = 0

\* C11: deallocate(data) removes exactly the blocks of the list whose payload
\* address is data or whose parent field is data, zeroes the header and the
\* payload of each, and counts them (the facade's true is a count above 0).
C11_RemovesTargetAndChildren ==
    Running =>
        \A data \in Addresses(mem, last) :
            LET r == Allocator_deallocate(mem, data)
                T == Targets(mem, data)
            IN  /\ r.st = "done"
                /\ Blocks(r.mem) = Blocks(mem) \ T
                /\ r.deallocated = Cardinality(T)
                /\ \A b \in T : ZeroedFrom(r.mem, b, BlockEnd(mem, b))

\* The free bytes after the i-th header of the list c (as an integer)
GapAfter(m, c, i) ==
    (IF i < Len(c) THEN c[i + 1] ELSE GuardBuffer + GuardSize) - BlockEnd(m, c[i])

\* The positions in the list, head sentinel first, of the blocks followed by
\* a gap of at least header size + size
FitsAt(m, size) ==
    LET c == Chain(m)
    IN  {i \in DOMAIN c : GapAfter(m, c, i) >= HeaderSize + size}

\* C12: a successful allocate / allocate_more is first-fit in address order:
\* the new header lies at the end of the first block of the list whose
\* following gap is at least header size + size, the address returned is that
\* position plus the header size, the new block's next is that block's old
\* successor, and no gap at a lower address was large enough.
C12_FirstFit ==
    Running =>
        \A size \in Sizes, parent \in {Null} \cup Payloads(mem) :
            LET r == Allocator_allocate_more(mem, size, parent)
                c == Chain(mem)
                F == FitsAt(mem, size)
            IN  r.st = "some" =>
                    /\ F # {}
                    /\ LET i == CHOOSE i \in F : \A j \in F : i <= j
                           new == BlockEnd(mem, c[i])
                       IN  /\ r.ptr = new + HeaderSize
                           /\ BlockNext(r.mem, c[i]) = new
                           /\ BlockNext(r.mem, new) = BlockNext(mem, c[i])
                           /\ BlockSizeField(r.mem, new) = size
                           /\ BlockParent(r.mem, new) = parent

\* C13: after any sequence of allocate, allocate_more and deallocate calls
\* with any requested sizes, size 0 included, no block of the list other than
\* the head sentinel has size 0.
C13_NoZeroSizeBlock ==
    \A b \in Blocks(mem) : BlockSizeField(mem, b) # 0

\* The next links from the head sentinel reach null without leaving the
\* guarded region and without coming back to a header already visited.
EndsInNull(m) ==
    LET c == Chain(m)
    IN  BlockNext(m, c[Len(c)]) = Null

\* C14: once the lock is held, every allocate, allocate_more and deallocate
\* call returns: in every reachable arena state the next links from the head
\* sentinel form a finite chain without a cycle that ends in null, and no
\* call repeats an invocation of its recursion for ever.
C14_Terminates ==
    /\ last.st # "diverge"
    /\ EndsInNull(mem)

\* ============================================= claims: facade, continued
\* The caller is in the loop of MemoryMutex::lock
Spinning(p) == proc[p].pc = "lock"

\* C15: lock() returns only after its own compare_exchange changed the lock
\* word from false to true; while the lock word is true and is not reset to
\* false, every caller inside lock() stays inside lock().
C15_ReturnsOnlyByOwnSwap ==
    [][\A p \in DOMAIN proc :
          Spinning(p) =>
              /\ LockWord(mem) => proc'[p].pc = "lock"
              /\ proc'[p].pc # "lock" =>
                    /\ ~LockWord(mem) /\ LockWord(mem')
                    /\ proc'[p].pc = "run"
                    /\ \A q \in DOMAIN proc \ {p} : proc'[q] = proc[q]]_vars

\* A caller spins in lock() while the lock word is held by a caller whose
\* call never returns, so that the lock word is never reset.
C15_SpinsBehindLostHolder ==
    \E p, q \in DOMAIN proc :
        p # q /\ proc[p].pc = "stuck" /\ Spinning(q) /\ LockWord(mem)

\* ------------------------------------------- the facade, fairly scheduled
\* A turn of the loop of MemoryMutex::lock by caller p, in any call
Acquire(p) ==
    \/ \E size \in ConcSizes : Lock(p, "allocate", size, Null)
    \/ \E size \in ConcSizes, parent \in Payloads(mem) :
            Lock(p, "allocate_more", size, parent)
    \/ \E buffer \in {Null} \cup Payloads(mem) : Lock(p, "deallocate", 0, buffer)

\* Every thread and process keeps being scheduled: a caller that could take
\* the lock, run an invocation or drop its guard for as long as it waits does
\* so.  Callers are free never to call.
Fairness ==
    \A p \in Procs :
        WF_vars(Acquire(p)) /\ WF_vars(Step(p)) /\ WF_vars(Drop(p))

SpecFair == SpecConc /\ Fairness

\* C16: under fair scheduling and with no holder crashing, whenever a caller
\* spins in lock() while the lock is free some caller acquires it, and every
\* facade call that acquires the lock completes and releases it.
C16_DeadlockFree ==
    /\ ((\E p \in Procs : Spinning(p)) /\ Holders = {}) ~> (Holders # {})
    /\ \A p \in Procs : Holding(p) ~> ~Holding(p)

\* ============================================== claims: the guarded region
\* Allocator::MIN_SIZE
MIN_SIZE == HeaderSize
\* The arena sizes Memory::new accepts (memory.rs:18), up to ArenaSize
AcceptedSizes == {size \in 0 .. ArenaSize : ~(size < MutexSize + MIN_SIZE)}
\* Where the guarded region of an arena of `size` bytes ends: the guard's
\* buffer() plus its size()
RegionEnd(size) == Add(MapBase, MutexSize) + (size - MutexSize)
\* The header Allocator::deallocate hands to the walk first (allocator.rs:38)
WalkStart == Add(GuardBuffer, HeaderSize)

\* C17: for every arena size Memory::new accepts and every sequence of calls,
\* every byte the allocator reads or writes lies inside the guarded region:
\* no call reads or writes a header or a payload outside it, and the header
\* the walk of deallocate reads first lies inside it.
C17_StaysInRegion ==
    /\ last.st # "fault"
    /\ \A size \in AcceptedSizes : WalkStart + HeaderSize <= RegionEnd(size)

\* ================================================ claims: stale groupings
\* The blocks of the list grouped under an address that no live block has
\* any more: the block they were allocated under has been removed.
Orphans(m) ==
    {b \in Blocks(m) : BlockParent(m, b) \notin {Null} \cup Payloads(m)}

\* C18: with allocate_more only ever called with a live parent address, a
\* block is removed only by a deallocate of its own payload address or of the
\* block it was grouped under when it was allocated: when a later allocation
\* reuses the address of a removed block, deallocating it does not remove a
\* block that was grouped under the earlier occupant of that address.
C18_NoStaleGrouping ==
    Running =>
        \A b \in Orphans(mem), size \in Sizes :
            LET r == Allocator_allocate(mem, size)
                d == Allocator_deallocate(r.mem, r.ptr)
            IN  r.st = "some" /\ r.ptr = BlockParent(mem, b) /\ d.st = "done"
                    => b \in Blocks(d.mem)

\* ==================================================== claims: word width
\* C19: with word arithmetic modulo 2^w, allocate(size) and
\* allocate_more(size, p) return None and leave the arena as it was for every
\* size such that header size + size exceeds the capacity of the guarded
\* region, the sizes for which header size + size exceeds the largest word
\* included.
C19_OversizeIsNone ==
    Running =>
        \A size \in Sizes, parent \in {Null} \cup Payloads(mem) :
            HeaderSize + size > GuardSize =>
                LET r == Allocator_allocate_more(mem, size, parent)
                IN  r.st = "none" /\ r.mem = mem

====
